---------------------------- MODULE Spec2Model ----------------------------
(***************************************************************************)
(* NeoPencil API (src/main.py, src/schemas.py): product catalog, cart and  *)
(* checkout over a document store.  Every handler is modelled as a request *)
(* whose store calls are separate steps, so that requests interleave at    *)
(* the granularity of single store operations.  Prices are integers.       *)
(***************************************************************************)
EXTENDS Integers, Sequences, FiniteSets, TLC

(* ------------------------------ bounds -------------------------------- *)
MaxProducts == 2
MaxCartItems == 2
MaxOrders == 2
MaxExternal == 1

Reqs == {"r1", "r2"}
Users == {"u1", "u2"}
Slugs == {"pencil-x1", "case-y2"}
Prices == {5, 10}
Quantities == {1, 2}

VARIABLES
    product,    \* db.product: _id -> document
    cartitem,   \* db.cartitem: documents in natural (insertion) order
    order,      \* db.order: _id -> document
    nextId,     \* the next fresh _id of each collection
    pc,         \* where each request in flight stands in its handler
    loc,        \* the handler's local variables
    resp,       \* the response the latest step returned, if it returned one
    external,   \* writes made so far by writers outside the service
    created,    \* history: _id -> the product as it was inserted
    added,      \* history: cart _id -> user, live price and quantity at add time
    orderSrc,   \* history: order _id -> the _ids of the cart items it copied
    solo        \* history: the store as found by a checkout nobody interleaved

vars == <<product, cartitem, order, nextId, pc, loc, resp, external,
          created, added, orderSrc, solo>>

store == <<product, cartitem, order>>
history == <<created, added, orderSrc>>

(* ------------------------------ schemas ------------------------------- *)
\* Product document (the fields the handlers read or write).
Product(slug, base_price, in_stock, inventory) ==
    [slug |-> slug, base_price |-> base_price,
     in_stock |-> in_stock, inventory |-> inventory]

\* CartItem document as add_to_cart builds it, with the store's _id.
CartItem(id, user_id, product_id, quantity, unit_price) ==
    [_id |-> id, user_id |-> user_id, product_id |-> product_id,
     quantity |-> quantity, unit_price |-> unit_price]

\* An order born paid.
OrderPaid(user_id, items, total_amount) ==
    [user_id |-> user_id, items |-> items, total_amount |-> total_amount,
     status |-> "paid"]

\* Order document: status defaults to "pending".
Order(user_id, items, total_amount) ==
    [user_id |-> user_id, items |-> items, total_amount |-> total_amount,
     status |-> "pending"]

NoLocals == [op |-> "none"]
NoResp == [r |-> "none", status |-> 0]
NoSolo == [r |-> "none"]

(* --------------------------- store operations ------------------------- *)
\* db.product.find_one({"slug": slug}): the first matching document's id
\* in natural (insertion) order, or 0 when there is none.
FindOneBySlug(slug) ==
    LET hits == {p \in DOMAIN product : product[p].slug = slug}
    IN  IF hits = {} THEN 0
        ELSE CHOOSE p \in hits : \A q \in hits : p <= q

\* create_document(collection, doc): a plain insert under a fresh _id.
FreshId(coll) == nextId[coll]

\* list(db.cartitem.find({"user_id": user_id})), in natural order.
FindCart(user_id) ==
    LET Mine(it) == it.user_id = user_id
    IN  SelectSeq(cartitem, Mine)

\* delete_one in place of delete_many: only the first match goes.
DeleteFirstOnly(user_id) ==
    LET hit == {k \in 1..Len(cartitem) : cartitem[k].user_id = user_id}
        first == CHOOSE k \in hit : \A j \in hit : k <= j
    IN  IF hit = {} THEN cartitem
        ELSE SubSeq(cartitem, 1, first - 1) \o SubSeq(cartitem, first + 1, Len(cartitem))

\* delete_many({}) in place of the filter on user_id.
DeleteEveryCart(user_id) == << >>

\* db.cartitem.delete_many({"user_id": user_id}): what is left.
DeleteMany(user_id) ==
    LET Others(it) == it.user_id # user_id
    IN  SelectSeq(cartitem, Others)

(* ----------------------------- pure helpers --------------------------- *)
\* `if db.product.find_one(...)`: the slug is taken.
SlugTaken(found) == found # 0

\* add_to_cart refusing a product that is not in stock.
ProductMissingOrOutOfStock(found) ==
    found = 0 \/ ~product[found].in_stock

\* `if not prod`: add_to_cart rejects the request.
ProductMissing(found) == found = 0

\* price = prod.get("base_price", 0.0)
CapturedPrice(found) == product[found].base_price

\* The empty-cart test left out.
CartNeverEmpty(items) == FALSE

\* `if not items`
CartIsEmpty(items) == items = <<>>

\* The live catalog price in place of the stored unit_price.
LineAmountLive(it) ==
    (IF it.product_id \in DOMAIN product
     THEN product[it.product_id].base_price ELSE it.unit_price) * it.quantity

\* float(it["unit_price"]) * int(it["quantity"])
LineAmount(it) == it.unit_price * it.quantity

\* total = 0.0; for it in items: total += ...
RECURSIVE Total(_)
Total(items) ==
    IF items = <<>> THEN 0
    ELSE LineAmount(Head(items)) + Total(Tail(items))

\* {k: v for k, v in it.items() if k != "_id"}
SnapshotItem(it) ==
    [user_id |-> it.user_id, product_id |-> it.product_id,
     quantity |-> it.quantity, unit_price |-> it.unit_price]

\* snapshot.append(...) for every item of the list read at the start.
Snapshot(items) == [i \in 1..Len(items) |-> SnapshotItem(items[i])]

\* The cart read again when the order is built.
OrderItemsReread(r) == FindCart(loc[r].user_id)

\* The items the order is built from: the list read by the handler's find.
OrderItems(r) == loc[r].items

\* A decrement of one unit whatever the quantity.
DecInventoryByOne(it) ==
    IF it.product_id \in DOMAIN product
    THEN [product EXCEPT ![it.product_id].inventory = @ - 1]
    ELSE product

\* A decrement that stops at zero.
DecInventoryFloor(it) ==
    IF it.product_id \in DOMAIN product
    THEN [product EXCEPT ![it.product_id].inventory =
              IF @ - it.quantity < 0 THEN 0 ELSE @ - it.quantity]
    ELSE product

\* update_one({"_id": product_id}, {"$inc": {"inventory": -quantity}}):
\* no document matched means nothing is written and nothing is raised.
DecInventory(it) ==
    IF it.product_id \in DOMAIN product
    THEN [product EXCEPT ![it.product_id].inventory = @ - it.quantity]
    ELSE product

\* The _ids of a list of cart documents.
Ids(items) == [i \in 1..Len(items) |-> items[i]._id]
IdSet(items) == {items[i]._id : i \in 1..Len(items)}

\* Requests in flight that will still insert into a collection.
Pending(at) == Cardinality({q \in Reqs : pc[q] = at})

(* ------------------------------- history ------------------------------ *)
\* solo records the store as a checkout found it; any step of another
\* request or of an outside writer resets it.
KeepSolo(r) == solo' = IF solo.r = r THEN solo ELSE NoSolo
DropSolo == solo' = NoSolo

Init ==
    /\ product = << >>
    /\ cartitem = << >>
    /\ order = << >>
    /\ nextId = [product |-> 1, cartitem |-> 1, order |-> 1]
    /\ pc = [r \in Reqs |-> "idle"]
    /\ loc = [r \in Reqs |-> NoLocals]
    /\ resp = NoResp
    /\ external = 0
    /\ created = << >>
    /\ added = << >>
    /\ orderSrc = << >>
    /\ solo = NoSolo

(* ------------------------ POST /api/products -------------------------- *)
CreateProductFind(r, body) ==
    /\ pc[r] = "idle"
    /\ nextId.product + Pending("cp_insert") <= MaxProducts
    /\ IF SlugTaken(FindOneBySlug(body.slug))
       THEN /\ resp' = [r |-> r, status |-> 400, detail |-> "Slug already exists"]
            /\ UNCHANGED <<pc, loc>>
       ELSE /\ pc' = [pc EXCEPT ![r] = "cp_insert"]
            /\ loc' = [loc EXCEPT ![r] = [op |-> "create_product", body |-> body]]
            /\ resp' = NoResp
    /\ DropSolo
    /\ UNCHANGED <<store, nextId, external, history>>

CreateProductInsert(r) ==
    /\ pc[r] = "cp_insert"
    /\ product' = (FreshId("product") :> loc[r].body) @@ product
    /\ created' = (FreshId("product") :> loc[r].body) @@ created
    /\ nextId' = [nextId EXCEPT !.product = @ + 1]
    /\ pc' = [pc EXCEPT ![r] = "idle"]
    /\ loc' = [loc EXCEPT ![r] = NoLocals]
    /\ resp' = [r |-> r, status |-> 201, ok |-> TRUE]
    /\ DropSolo
    /\ UNCHANGED <<cartitem, order, external, added, orderSrc>>

(* ------------------------ POST /api/cart/add -------------------------- *)
AddToCartFind(r, user_id, slug, quantity) ==
    /\ pc[r] = "idle"
    /\ nextId.cartitem + Pending("add_insert") <= MaxCartItems
    /\ LET prod == FindOneBySlug(slug) IN
       IF ProductMissing(prod)
       THEN /\ resp' = [r |-> r, status |-> 404, detail |-> "Product not found"]
            /\ UNCHANGED <<pc, loc>>
       ELSE /\ pc' = [pc EXCEPT ![r] = "add_insert"]
            /\ loc' = [loc EXCEPT ![r] =
                         [op |-> "add_to_cart", user_id |-> user_id,
                          product_id |-> prod, quantity |-> quantity,
                          unit_price |-> CapturedPrice(prod),
                          live |-> product[prod].base_price]]
            /\ resp' = NoResp
    /\ DropSolo
    /\ UNCHANGED <<store, nextId, external, history>>

AddToCartInsert(r) ==
    /\ pc[r] = "add_insert"
    /\ cartitem' = Append(cartitem,
                          CartItem(FreshId("cartitem"), loc[r].user_id,
                                   loc[r].product_id, loc[r].quantity,
                                   loc[r].unit_price))
    /\ added' = (FreshId("cartitem") :>
                   [user_id |-> loc[r].user_id, price |-> loc[r].live,
                    quantity |-> loc[r].quantity]) @@ added
    /\ nextId' = [nextId EXCEPT !.cartitem = @ + 1]
    /\ pc' = [pc EXCEPT ![r] = "idle"]
    /\ loc' = [loc EXCEPT ![r] = NoLocals]
    /\ resp' = [r |-> r, status |-> 200, ok |-> TRUE]
    /\ DropSolo
    /\ UNCHANGED <<product, order, external, created, orderSrc>>

(* ------------------------ POST /api/checkout -------------------------- *)
CheckoutFind(r, user_id) ==
    /\ pc[r] = "idle"
    /\ nextId.order + Pending("co_order") <= MaxOrders
    /\ LET items == FindCart(user_id) IN
       IF CartIsEmpty(items)
       THEN /\ resp' = [r |-> r, status |-> 400, detail |-> "Cart is empty"]
            /\ UNCHANGED <<pc, loc>>
            /\ DropSolo
       ELSE /\ pc' = [pc EXCEPT ![r] = "co_order"]
            /\ loc' = [loc EXCEPT ![r] =
                         [op |-> "checkout", user_id |-> user_id,
                          items |-> items, order_id |-> 0, i |-> 1]]
            /\ resp' = NoResp
            /\ solo' = [r |-> r, user_id |-> user_id,
                        product |-> product, cartitem |-> cartitem]
    /\ UNCHANGED <<store, nextId, external, history>>

CheckoutOrder(r) ==
    /\ pc[r] = "co_order"
    /\ order' = (FreshId("order") :>
                   Order(loc[r].user_id, Snapshot(OrderItems(r)),
                         Total(OrderItems(r)))) @@ order
    /\ orderSrc' = (FreshId("order") :> Ids(OrderItems(r))) @@ orderSrc
    /\ nextId' = [nextId EXCEPT !.order = @ + 1]
    /\ loc' = [loc EXCEPT ![r].order_id = FreshId("order")]
    /\ pc' = [pc EXCEPT ![r] = "co_dec"]
    /\ resp' = NoResp
    /\ KeepSolo(r)
    /\ UNCHANGED <<product, cartitem, external, created, added>>

CheckoutDec(r) ==
    /\ pc[r] = "co_dec"
    /\ loc[r].i <= Len(loc[r].items)
    /\ product' = DecInventory(loc[r].items[loc[r].i])
    /\ loc' = [loc EXCEPT ![r].i = @ + 1]
    /\ resp' = NoResp
    /\ KeepSolo(r)
    /\ UNCHANGED <<cartitem, order, nextId, pc, external, history>>

CheckoutClear(r) ==
    /\ pc[r] = "co_dec"
    /\ loc[r].i > Len(loc[r].items)
    /\ cartitem' = DeleteMany(loc[r].user_id)
    /\ pc' = [pc EXCEPT ![r] = "idle"]
    /\ resp' = [r |-> r, status |-> 200, ok |-> TRUE, order_id |-> loc[r].order_id]
    /\ loc' = [loc EXCEPT ![r] = NoLocals]
    /\ KeepSolo(r)
    /\ UNCHANGED <<product, order, nextId, external, history>>

(* ----------------- writers outside the service ------------------------ *)
\* The catalog's base_price changes (no endpoint of the service does it).
ExternalSetPrice(p, price) ==
    /\ p \in DOMAIN product
    /\ external < MaxExternal
    /\ product[p].base_price # price
    /\ product' = [product EXCEPT ![p].base_price = price]
    /\ external' = external + 1
    /\ resp' = NoResp
    /\ DropSolo
    /\ UNCHANGED <<cartitem, order, nextId, pc, loc, history>>

\* A product document is removed from the store.
ExternalDeleteProduct(p) ==
    /\ p \in DOMAIN product
    /\ external < MaxExternal
    /\ product' = [q \in DOMAIN product \ {p} |-> product[q]]
    /\ external' = external + 1
    /\ resp' = NoResp
    /\ DropSolo
    /\ UNCHANGED <<cartitem, order, nextId, pc, loc, history>>

\* Request bodies of POST /api/products: the catalog of the running
\* example, the pencil in stock with one unit, the case out of stock.
ProductBodies ==
    { Product("pencil-x1", 10, TRUE, 1), Product("case-y2", 5, FALSE, 0) }

Next ==
    \/ \E r \in Reqs, body \in ProductBodies : CreateProductFind(r, body)
    \/ \E r \in Reqs : CreateProductInsert(r)
    \/ \E r \in Reqs, u \in Users, s \in Slugs, q \in Quantities :
          AddToCartFind(r, u, s, q)
    \/ \E r \in Reqs : AddToCartInsert(r)
    \/ \E r \in Reqs, u \in Users : CheckoutFind(r, u)
    \/ \E r \in Reqs : CheckoutOrder(r)
    \/ \E r \in Reqs : CheckoutDec(r)
    \/ \E r \in Reqs : CheckoutClear(r)
    \/ \E p \in DOMAIN product, b \in Prices : ExternalSetPrice(p, b)
    \/ \E p \in DOMAIN product : ExternalDeleteProduct(p)

Spec == Init /\ [][Next]_vars

(* ======================= properties of the service ==================== *)
Range(f) == {f[x] : x \in DOMAIN f}

\* The sum of live price x quantity, as recorded at add time, over cart _ids.
RECURSIVE SumAdded(_)
SumAdded(ids) ==
    IF ids = <<>> THEN 0
    ELSE added[Head(ids)].price * added[Head(ids)].quantity + SumAdded(Tail(ids))

\* The same sum over the documents of one user in a cart collection.
RECURSIVE SumAddedOf(_, _)
SumAddedOf(cart, u) ==
    IF cart = <<>> THEN 0
    ELSE (IF Head(cart).user_id = u
          THEN added[Head(cart)._id].price * added[Head(cart)._id].quantity
          ELSE 0) + SumAddedOf(Tail(cart), u)

\* The quantity that the first n documents of a list ask of product p
\* (u = "" counts every user's documents).
RECURSIVE QtyOf(_, _, _, _)
QtyOf(items, n, u, p) ==
    IF n = 0 THEN 0
    ELSE (IF items[n].product_id = p /\ (u = "" \/ items[n].user_id = u)
          THEN items[n].quantity ELSE 0) + QtyOf(items, n - 1, u, p)

\* A checkout that nobody interleaved has just returned.
SoloDone ==
    /\ solo.r # "none"
    /\ pc[solo.r] = "idle"

\* The decrements of order o that have been issued so far.
Issued(o) ==
    IF \E r \in Reqs : pc[r] = "co_dec" /\ loc[r].order_id = o
    THEN loc[CHOOSE r \in Reqs : pc[r] = "co_dec" /\ loc[r].order_id = o].i - 1
    ELSE Len(order[o].items)

RECURSIVE IssuedQty(_, _)
IssuedQty(os, p) ==
    IF os = {} THEN 0
    ELSE LET o == CHOOSE x \in os : TRUE
         IN  QtyOf(order[o].items, Issued(o), "", p) + IssuedQty(os \ {o}, p)

\* Every product's inventory is what it was created with, less the
\* decrements issued for the items of the orders.
Accounting ==
    \A p \in DOMAIN product :
        product[p].inventory = created[p].inventory - IssuedQty(DOMAIN order, p)

\* Request r leaves the decrement loop of checkout and returns.
Returns(r) == pc[r] = "co_dec" /\ pc'[r] = "idle"

(* ------------------------------- C1 ----------------------------------- *)
\* C1: every order's total_amount is the sum, over the cart items it was
\* built from, of the product's base_price at the moment of the add call
\* times the quantity asked; and the order of a checkout nobody interleaved
\* sums over all of that user's cart items.
C1_TotalFromAddTimePrices ==
    /\ \A o \in DOMAIN order : order[o].total_amount = SumAdded(orderSrc[o])
    /\ SoloDone =>
          order[resp.order_id].total_amount = SumAddedOf(solo.cartitem, solo.user_id)

\* A checkout of two items returned after the catalog price of one moved.
C1_Witness ==
    /\ SoloDone
    /\ Len(order[resp.order_id].items) >= 2
    /\ \E k \in 1..Len(order[resp.order_id].items) :
          LET it == order[resp.order_id].items[k]
          IN  /\ it.product_id \in DOMAIN product
              /\ product[it.product_id].base_price # it.unit_price

(* ------------------------------- C2 ----------------------------------- *)
\* C2: a checkout for a user without cart items answers 400 "Cart is empty"
\* and leaves products, cart items and orders as they were.
C2_EmptyCartRejected ==
    [][\A r \in Reqs, u \in Users :
          (CheckoutFind(r, u) /\ \A k \in 1..Len(cartitem) : cartitem[k].user_id # u)
          => /\ resp' = [r |-> r, status |-> 400, detail |-> "Cart is empty"]
             /\ pc'[r] = "idle"
             /\ UNCHANGED store]_vars

\* The empty-cart answer, with another user's item and an order in the store.
C2_Witness ==
    /\ \E r \in Reqs : resp = [r |-> r, status |-> 400, detail |-> "Cart is empty"]
    /\ cartitem # << >>
    /\ order # << >>

C4_SlugsUnique ==
    \A p, q \in DOMAIN product : product[p].slug = product[q].slug => p = q

(* ------------------------------- C5 ----------------------------------- *)
\* C5: after a checkout nobody interleaved, the products are those it
\* found, each with its inventory less the quantities of the user's cart
\* items that name it, and nothing else changed.
C5_InventoryAfterSoloCheckout ==
    SoloDone =>
       /\ DOMAIN product = DOMAIN solo.product
       /\ \A p \in DOMAIN product :
             product[p] =
                [solo.product[p] EXCEPT
                    !.inventory = @ - QtyOf(solo.cartitem, Len(solo.cartitem),
                                            solo.user_id, p)]

\* Two items of one product were checked out, the other product untouched.
C5_Witness ==
    /\ SoloDone
    /\ \E p \in DOMAIN product :
          QtyOf(solo.cartitem, Len(solo.cartitem), solo.user_id, p) >= 3
    /\ \E p \in DOMAIN product :
          QtyOf(solo.cartitem, Len(solo.cartitem), solo.user_id, p) = 0

(* ------------------------------- C6 ----------------------------------- *)
\* C6: a checkout past the empty-cart test inserts exactly one order, pending
\* and under an _id no order had; nothing else inserts orders, and an order
\* once inserted is never changed or removed.
C6_OneOrderPerCheckout ==
    [][/\ \A o \in DOMAIN order : o \in DOMAIN order' /\ order'[o] = order[o]
       /\ \A r \in Reqs :
             (pc[r] = "co_order" /\ pc'[r] # "co_order")
             => \E o \in DOMAIN order' \ DOMAIN order :
                   /\ DOMAIN order' = DOMAIN order \cup {o}
                   /\ order'[o].status = "pending"
                   /\ order'[o].user_id = loc[r].user_id
                   /\ pc'[r] = "co_dec"
       /\ DOMAIN order' # DOMAIN order
             => \E r \in Reqs : pc[r] = "co_order" /\ pc'[r] = "co_dec"
       /\ \A r \in Reqs : pc[r] = "co_dec" => pc'[r] \in {"co_dec", "idle"}]_vars

\* Two orders of one user, built from different cart items.
C6_Witness ==
    \E o1, o2 \in DOMAIN order :
       /\ o1 # o2
       /\ order[o1].user_id = order[o2].user_id
       /\ Range(orderSrc[o1]) \cap Range(orderSrc[o2]) = {}
       /\ \A r \in Reqs : pc[r] = "idle"

(* ------------------------------- C7 ----------------------------------- *)
\* C7: two orders built from the same cart items hold the same snapshot and
\* total, and every product's inventory is down by the quantities of every
\* order's items whose decrement was issued, twice for items ordered twice.
C7_DoubleCheckout ==
    /\ \A o1, o2 \in DOMAIN order :
          orderSrc[o1] = orderSrc[o2] =>
             /\ order[o1].items = order[o2].items
             /\ order[o1].total_amount = order[o2].total_amount
    /\ Accounting

\* Two checkouts read the same cart and returned: two orders of the same
\* items, and a product down by twice their quantity.
C7_Witness ==
    /\ \A r \in Reqs : pc[r] = "idle"
    /\ \E o1, o2 \in DOMAIN order :
          /\ o1 # o2
          /\ orderSrc[o1] = orderSrc[o2]
          /\ \E p \in DOMAIN product :
                LET q == QtyOf(order[o1].items, Len(order[o1].items), "", p)
                IN  q > 0 /\ product[p].inventory = created[p].inventory - 2 * q

(* ------------------------------- C8 ----------------------------------- *)
\* C8, as claimed: a cart item of the user that the returning checkout did
\* not read is deleted without being part of any order.
C8_LateItemInNoOrder ==
    [][\A r \in Reqs : Returns(r) =>
          \A k \in 1..Len(cartitem) :
             (cartitem[k].user_id = loc[r].user_id
                 /\ cartitem[k]._id \notin IdSet(loc[r].items))
             => /\ cartitem[k]._id \notin {cartitem'[j]._id : j \in 1..Len(cartitem')}
                /\ \A o \in DOMAIN order : cartitem[k]._id \notin Range(orderSrc[o])]_vars

\* C8, amended: such an item is deleted without being part of the order of
\* the checkout that deletes it, whose snapshot and total cover the items it
\* read and no more; any order holding the item is another checkout's.
C8_LateItemNotInOwnOrder ==
    [][\A r \in Reqs : Returns(r) =>
          /\ Len(order[loc[r].order_id].items) = Len(loc[r].items)
          /\ order[loc[r].order_id].total_amount = SumAdded(Ids(loc[r].items))
          /\ \A k \in 1..Len(cartitem) :
                (cartitem[k].user_id = loc[r].user_id
                    /\ cartitem[k]._id \notin IdSet(loc[r].items))
                => /\ cartitem[k]._id \notin {cartitem'[j]._id : j \in 1..Len(cartitem')}
                   /\ cartitem[k]._id \notin Range(orderSrc[loc[r].order_id])]_vars

\* A cart item is gone from the cart and is part of no order.
C8_Witness ==
    /\ \A r \in Reqs : pc[r] = "idle"
    /\ \E id \in DOMAIN added :
          /\ id \notin {cartitem[j]._id : j \in 1..Len(cartitem)}
          /\ \A o \in DOMAIN order : id \notin Range(orderSrc[o])

(* ------------------------------- C9 ----------------------------------- *)
\* C9: a returning checkout leaves every other user's cart item in place,
\* cart items only go when a checkout returns, every order holds items of
\* its own user only, and a checkout decrements for its own user's items.
C9_OtherUsersUntouched ==
    [][/\ \A r \in Reqs : Returns(r) =>
             \A k \in 1..Len(cartitem) :
                cartitem[k].user_id # loc[r].user_id
                => \E j \in 1..Len(cartitem') : cartitem'[j] = cartitem[k]
       /\ (\E k \in 1..Len(cartitem) :
              cartitem[k] \notin Range(cartitem'))
             => \E r \in Reqs : Returns(r)
       /\ \A o \in DOMAIN order' : \A k \in 1..Len(order'[o].items) :
             order'[o].items[k].user_id = order'[o].user_id
       /\ \A r \in Reqs :
             (pc[r] = "co_dec" /\ loc[r].i <= Len(loc[r].items))
             => loc[r].items[loc[r].i].user_id = loc[r].user_id]_vars

\* A checkout returned and another user's item is still in the cart.
C9_Witness ==
    /\ \E r \in Reqs : resp = [r |-> r, status |-> 200, ok |-> TRUE,
                               order_id |-> nextId.order - 1]
    /\ order # << >>
    /\ \E k \in 1..Len(cartitem) :
          cartitem[k].user_id # order[nextId.order - 1].user_id

(* ------------------------------- C10 ---------------------------------- *)
\* C10: add_to_cart goes on for any product it finds and checkout for any
\* cart that is not empty, whatever inventory and in_stock are, and in_stock
\* keeps the value the product was created with.
C10_NoStockCheck ==
    [][/\ \A p \in DOMAIN product' : product'[p].in_stock = created'[p].in_stock
       /\ \A r \in Reqs, u \in Users, s \in Slugs, q \in Quantities :
             (AddToCartFind(r, u, s, q) /\ \E p \in DOMAIN product : product[p].slug = s)
             => pc'[r] = "add_insert"
       /\ \A r \in Reqs :
             pc[r] = "add_insert" => pc'[r] = "add_insert" \/
                 resp' = [r |-> r, status |-> 200, ok |-> TRUE]
       /\ \A r \in Reqs, u \in Users :
             (CheckoutFind(r, u) /\ \E k \in 1..Len(cartitem) : cartitem[k].user_id = u)
             => pc'[r] = "co_order"]_vars

\* A product in stock by its flag with a negative inventory.
C10_Witness ==
    \E p \in DOMAIN product : product[p].in_stock /\ product[p].inventory < 0

=============================================================================
